---- MODULE Spec2Model ----
(***************************************************************************)
(* napari-tracks: the track extractor get_tracks, the reader resolver      *)
(* napari_get_reader and the format dispatcher reader_function of          *)
(* src/napari_tracks/tracks.py.                                            *)
(*                                                                         *)
(* A DataFrame is a record [cols, rows]: cols is the set of column names,  *)
(* rows the sequence of rows in positional order, each row a record        *)
(* [idx, val] with idx the pandas index label of the row and val the       *)
(* function column name -> value.                                          *)
(*                                                                         *)
(* get_tracks is modelled with w_prop = True (the only way the reader      *)
(* calls it); its timing print and the 'track length' column it leaves on  *)
(* the caller's table are not part of the model.  Values are integers, so  *)
(* the in-place multiply never has to cast.  pd.read_csv is the lookup of  *)
(* the table a file holds; the three preamble lines the export branch      *)
(* skips are not modelled.                                                 *)
(***************************************************************************)
EXTENDS Integers, Sequences, FiniteSets, TLC

VARIABLES
    df,          \* get_tracks: the table passed in
    min_frames,  \* get_tracks: threshold
    coord_cols,  \* get_tracks: names of the coordinate columns
    scale,       \* get_tracks: per-axis scale, broadcast to three entries
    tpc,         \* get_tracks: "call" before the call, "done" after it
    tresult,     \* get_tracks: what the call returned
    fs,          \* the files of the directory: name -> kind of table, or "absent"
    path,        \* the path or list of paths handed to the plugin
    handler,     \* what napari_get_reader returned, "unset" before the call
    rpc,         \* "resolve", then "resolved", then "done"
    routcome     \* what the handler returned or raised

tvars == <<df, min_frames, coord_cols, scale, tpc, tresult>>
rvars == <<fs, path, handler, rpc, routcome>>
vars == <<tvars, rvars>>

----------------------------------------------------------------------------
(* Bounds of the explored inputs *)

MaxRows == 3
MaxId == 1
MaxTime == 1
MaxPaths == 2

----------------------------------------------------------------------------
(* Sequence helpers *)

Range(s) == {s[i] : i \in DOMAIN s}

Column(d, c) == [i \in 1..Len(d.rows) |-> d.rows[i].val[c]]

----------------------------------------------------------------------------
(* get_tracks, tracks.py:9-66 *)

NoValue == [kind |-> "none"]
Raised(what) == [kind |-> "raised", error |-> what]

\* np.bincount(id_array)[v]: the number of entries of id_array equal to v
BinCount(id_array, v) == Cardinality({i \in DOMAIN id_array : id_array[i] = v})

\* df["track length"] = track_count[id_array]
WithTrackLength(d, id_col) ==
    LET id_array == Column(d, id_col)
    IN [cols |-> d.cols \cup {"track length"},
        rows |-> [i \in 1..Len(d.rows) |->
                    [idx |-> d.rows[i].idx,
                     val |-> [c \in d.cols \cup {"track length"} |->
                                IF c = "track length"
                                THEN BinCount(id_array, id_array[i])
                                ELSE d.rows[i].val[c]]]]]

KeepRowMutant(r, mf) == r.val["track length"] > mf
\* the row mask of df.loc[df["track length"] >= min_frames, :]
KeepRow(r, mf) == r.val["track length"] >= mf

FilterRows(d, mf) ==
    LET Keep(r) == KeepRow(r, mf)
    IN [cols |-> d.cols, rows |-> SelectSeq(d.rows, Keep)]

RowBeforeMutant(a, b, id_col, time_col) == a.val[id_col] < b.val[id_col]
\* the strict order of sort_values(by=[id_col, time_col])
RowBefore(a, b, id_col, time_col) ==
    \/ a.val[id_col] < b.val[id_col]
    \/ a.val[id_col] = b.val[id_col] /\ a.val[time_col] < b.val[time_col]

\* stable insertion of row r into the sorted sequence s, after its equals
RECURSIVE InsertRow(_, _, _, _)
InsertRow(s, r, id_col, time_col) ==
    IF s = <<>> THEN <<r>>
    ELSE IF RowBefore(r, Head(s), id_col, time_col)
         THEN <<r>> \o s
         ELSE <<Head(s)>> \o InsertRow(Tail(s), r, id_col, time_col)

RECURSIVE SortRows(_, _, _)
SortRows(s, id_col, time_col) ==
    IF s = <<>> THEN <<>>
    ELSE InsertRow(SortRows(SubSeq(s, 1, Len(s) - 1), id_col, time_col),
                   s[Len(s)], id_col, time_col)

SortValues(d, id_col, time_col) ==
    [cols |-> d.cols, rows |-> SortRows(d.rows, id_col, time_col)]

\* df_filtered[data_cols].to_numpy(): one sequence of values per row
ToNumpy(d, data_cols) ==
    [i \in 1..Len(d.rows) |-> [k \in 1..Len(data_cols) |-> d.rows[i].val[data_cols[k]]]]

\* numpy broadcasting of scale against the three-column slice: a scalar or a
\* one-element scale is repeated, a three-element scale is used entry by entry
Broadcast3(sc, j) == IF Len(sc) = 1 THEN sc[1] ELSE sc[j]

\* the columns selected by the slice [:, -3:] of an array of the given width
ScaledColumn(k, width) == k > width - 3

\* track_data[:, -3:] *= scale: the last three columns of the array, whatever
\* they hold, are multiplied by the broadcast scale in that order
ScaleLast3(track_data, width, sc) ==
    [i \in 1..Len(track_data) |->
        [k \in 1..width |->
            IF ScaledColumn(k, width)
            THEN track_data[i][k] * Broadcast3(sc, k - (width - 3))
            ELSE track_data[i][k]]]

\* df_filtered.to_dict('list')
ToDictList(d) == [c \in d.cols |-> Column(d, c)]

get_tracks(d, mf, id_col, time_col, ccols, sc) ==
    LET data_cols == <<id_col, time_col>> \o ccols
    IN IF ~(Range(data_cols) \subseteq d.cols)
       THEN Raised("KeyError")
       ELSE IF Len(sc) \notin {1, 3}
       THEN Raised("ValueError")
       ELSE LET df_filtered ==
                    SortValues(FilterRows(WithTrackLength(d, id_col), mf), id_col, time_col)
                track_data == ToNumpy(df_filtered, data_cols)
            IN [kind |-> "ok",
                track_data |-> ScaleLast3(track_data, Len(data_cols), sc),
                properties |-> ToDictList(df_filtered),
                index |-> [i \in 1..Len(df_filtered.rows) |-> df_filtered.rows[i].idx]]

----------------------------------------------------------------------------
(* Paths and the file system.  A string is a sequence of characters. *)

Csv == <<".", "c", "s", "v">>
PositionCsv == <<"P", "o", "s", "i", "t", "i", "o", "n">> \o Csv

\* str.endswith
EndsWith(s, suffix) ==
    /\ Len(s) >= Len(suffix)
    /\ SubSeq(s, Len(s) - Len(suffix) + 1, Len(s)) = suffix

\* the code point of a character, for the order of sorted()
Ord(ch) ==
    CASE ch = "." -> 46 [] ch = "/" -> 47 [] ch = "A" -> 65 [] ch = "P" -> 80
      [] ch = "a" -> 97 [] ch = "b" -> 98 [] ch = "c" -> 99 [] ch = "d" -> 100
      [] ch = "i" -> 105 [] ch = "n" -> 110 [] ch = "o" -> 111 [] ch = "s" -> 115
      [] ch = "t" -> 116 [] ch = "v" -> 118 [] ch = "x" -> 120

\* s < t in the order of Python strings
RECURSIVE StrLess(_, _)
StrLess(s, t) ==
    IF t = <<>> THEN FALSE
    ELSE IF s = <<>> THEN TRUE
    ELSE IF Head(s) = Head(t) THEN StrLess(Tail(s), Tail(t))
    ELSE Ord(Head(s)) < Ord(Head(t))

\* sorted() of a set of distinct strings
RECURSIVE Sorted(_)
Sorted(S) ==
    IF S = {} THEN <<>>
    ELSE LET m == CHOOSE a \in S : \A b \in S \ {a} : StrLess(a, b)
         IN <<m>> \o Sorted(S \ {m})

\* os.path.join(d, name)
Join(d, name) == d \o <<"/">> \o name

Dir == <<"d">>
CsvNames == {<<"A">> \o Csv, <<"b">> \o Csv, PositionCsv}
TxtName == <<"n", ".", "t", "x", "t">>
Names == CsvNames \cup {TxtName}

\* paths are [list |-> FALSE, s |-> string] or [list |-> TRUE, items |-> strings]
Str(s) == [list |-> FALSE, s |-> s]
List(items) == [list |-> TRUE, items |-> items]

\* the entries of the one directory of the file system: the names fs holds
ListDir(files) == {n \in DOMAIN files : files[n] # "absent"}
IsDir(s) == s = Dir
Exists(files, s) == \E n \in ListDir(files) : s = Join(Dir, n)
BaseName(s) == SubSeq(s, Len(Dir) + 2, Len(s))

\* glob.glob(os.path.join(path, '*.csv')): hidden entries do not match '*'
Glob(files) ==
    {Join(Dir, n) : n \in {m \in ListDir(files) : EndsWith(m, Csv) /\ Head(m) # "."}}

----------------------------------------------------------------------------
(* napari_get_reader, tracks.py:69-97 *)

AllCsvMutant(items) == \E i \in DOMAIN items : EndsWith(items[i], Csv)
\* all([pth.endswith('.csv') for pth in path])
AllCsv(items) == \A i \in DOMAIN items : EndsWith(items[i], Csv)

napari_get_reader(files, p) ==
    IF p.list
    THEN IF AllCsv(p.items) THEN "reader_function" ELSE "None"
    ELSE IF EndsWith(p.s, Csv) THEN "reader_function"
    ELSE IF IsDir(p.s) /\ \E n \in ListDir(files) : EndsWith(n, Csv)
         THEN "reader_function"
    ELSE "None"

----------------------------------------------------------------------------
(* The tables the files of the file system hold *)

MkTable(cols, vals) ==
    [cols |-> cols, rows |-> [i \in 1..Len(vals) |-> [idx |-> i, val |-> vals[i]]]]

\* pandas' missing value, filled in by a left merge for rows without a match
NaN == -1

\* the coordinates of the row with index label i
Coord(i, c) == IF c = "z" THEN 7 * i ELSE IF c = "y" THEN 7 * i + 1 ELSE 7 * i + 2

XYZ(i) == [c \in {"z", "y", "x"} |-> Coord(i, c)]

ParticleTable ==
    MkTable({"particle", "frame", "z", "y", "x"},
            << [particle |-> 1, frame |-> 1] @@ XYZ(1),
               [particle |-> 1, frame |-> 0] @@ XYZ(2),
               [particle |-> 0, frame |-> 0] @@ XYZ(3) >>)

ParentTable ==
    MkTable({"parent", "t", "z", "y", "x"},
            << [parent |-> 2, t |-> 1] @@ XYZ(1),
               [parent |-> 0, t |-> 0] @@ XYZ(2),
               [parent |-> 2, t |-> 0] @@ XYZ(3) >>)

BothTable ==
    MkTable({"parent", "t", "particle", "frame", "z", "y", "x"},
            << [parent |-> 1, t |-> 0, particle |-> 0, frame |-> 1] @@ XYZ(1),
               [parent |-> 0, t |-> 1, particle |-> 1, frame |-> 0] @@ XYZ(2) >>)

NeitherTable == MkTable({"a"}, << [a |-> 1] >>)

PosRow(id, track, time) ==
    ("Position X" :> 3 * id) @@ ("Position Y" :> 3 * id + 1) @@ ("Position Z" :> 3 * id + 2)
    @@ [ID |-> id, TrackID |-> track, Time |-> time, Unit |-> 0, Category |-> 0]

PositionTable ==
    MkTable({"Position X", "Position Y", "Position Z", "Unit", "Category",
             "Time", "TrackID", "ID"},
            << PosRow(10, 1, 2), PosRow(11, 1, 1), PosRow(12, 0, 1) >>)

\* a per-spot statistic: it has the Time column
AuxTimeTable ==
    MkTable({"Speed", "Unit", "Time", "TrackID", "ID"},
            << [Speed |-> 5, Unit |-> 0, Time |-> 1, TrackID |-> 1, ID |-> 11],
               [Speed |-> 6, Unit |-> 0, Time |-> 1, TrackID |-> 0, ID |-> 12] >>)

\* a per-track statistic: no Time column, the track id is in column ID
AuxTrackTable ==
    MkTable({"Duration", "Unit", "ID"},
            << [Duration |-> 2, Unit |-> 0, ID |-> 1],
               [Duration |-> 1, Unit |-> 0, ID |-> 0] >>)

\* a table without a Time column whose track id is already named TrackID
AuxNoTimeTable ==
    MkTable({"Volume", "TrackID"},
            << [Volume |-> 9, TrackID |-> 1], [Volume |-> 8, TrackID |-> 0] >>)

Kinds == {"particle", "parent", "both", "neither",
          "position", "auxtime", "auxtrack", "auxnotime"}

TableOf(kind) ==
    CASE kind = "particle" -> ParticleTable
      [] kind = "parent" -> ParentTable
      [] kind = "both" -> BothTable
      [] kind = "neither" -> NeitherTable
      [] kind = "position" -> PositionTable
      [] kind = "auxtime" -> AuxTimeTable
      [] kind = "auxtrack" -> AuxTrackTable
      [] kind = "auxnotime" -> AuxNoTimeTable

\* pd.read_csv(path): the table the file holds
ReadCsv(files, s) == TableOf(files[BaseName(s)])

----------------------------------------------------------------------------
(* The pandas operations reader_function uses *)

Restrict(f, S) == [c \in S |-> f[c]]

\* DataFrame.drop(columns=remove, errors='ignore')
Drop(d, remove) ==
    [cols |-> d.cols \ remove,
     rows |-> [i \in 1..Len(d.rows) |->
                 [idx |-> d.rows[i].idx, val |-> Restrict(d.rows[i].val, d.cols \ remove)]]]

\* DataFrame.rename(columns={old: new}); a table without the column is unchanged
Rename(d, old, new) ==
    IF old \notin d.cols THEN d
    ELSE LET cols == (d.cols \ {old}) \cup {new}
         IN [cols |-> cols,
             rows |-> [i \in 1..Len(d.rows) |->
                         [idx |-> d.rows[i].idx,
                          val |-> [c \in cols |-> IF c = new THEN d.rows[i].val[old]
                                                  ELSE d.rows[i].val[c]]]]]

\* the rows a left merge makes of one left row: one per matching right row in
\* the right table's order, or one filled with NaN when nothing matches
MergedRows(lval, right, on, overlap, lcols, rcols) ==
    LET LName(c) == IF c \in overlap THEN c \o "_x" ELSE c
        RName(c) == IF c \in overlap THEN c \o "_y" ELSE c
        matches == SelectSeq([j \in 1..Len(right.rows) |-> j],
                             LAMBDA j : \A k \in on : right.rows[j].val[k] = lval[k])
        Left == [n \in {LName(c) : c \in lcols} |->
                    lval[CHOOSE c \in lcols : LName(c) = n]]
        RightOf(rval) == [n \in {RName(c) : c \in rcols} |->
                            rval[CHOOSE c \in rcols : RName(c) = n]]
        Missing == [n \in {RName(c) : c \in rcols} |-> NaN]
    IN IF matches = <<>> THEN << Left @@ Missing >>
       ELSE [m \in 1..Len(matches) |-> Left @@ RightOf(right.rows[matches[m]].val)]

RECURSIVE ConcatAll(_)
ConcatAll(ss) == IF ss = <<>> THEN <<>> ELSE Head(ss) \o ConcatAll(Tail(ss))

\* left.merge(right, on=on, how='left'); columns the two tables share besides
\* the keys get the suffixes _x and _y
Merge(left, right, on) ==
    IF ~(on \subseteq left.cols /\ on \subseteq right.cols)
    THEN Raised("KeyError")
    ELSE LET overlap == (left.cols \cap right.cols) \ on
             LName(c) == IF c \in overlap THEN c \o "_x" ELSE c
             RName(c) == IF c \in overlap THEN c \o "_y" ELSE c
             rcols == right.cols \ on
             vals == ConcatAll([i \in 1..Len(left.rows) |->
                        MergedRows(left.rows[i].val, right, on, overlap,
                                   left.cols, rcols)])
         IN [kind |-> "ok",
             table |-> MkTable({LName(c) : c \in left.cols} \cup {RName(c) : c \in rcols},
                               vals)]

\* table['Time'] -= 1
DecrementTime(d) ==
    [cols |-> d.cols,
     rows |-> [i \in 1..Len(d.rows) |->
                 [idx |-> d.rows[i].idx,
                  val |-> [c \in d.cols |-> IF c = "Time" THEN d.rows[i].val[c] - 1
                                            ELSE d.rows[i].val[c]]]]]

----------------------------------------------------------------------------
(* reader_function, tracks.py:100-180 *)

layer_type == "tracks"
DefaultCoordCols == <<"z", "y", "x">>
DefaultScale == <<1, 1, 1>>
cols_to_remove == {"Unit", "Category", "Collection", "Unnamed: 9", "Unnamed: 6", "Unnamed: 4"}

MergeKeysMutant(tab, tab_clean) ==
    IF "Time" \in tab.cols THEN {"TrackID", "Time"} ELSE {"TrackID"}
\* the keys an auxiliary table is merged on, {} when the loop skips it
MergeKeys(tab, tab_clean) ==
    IF "Time" \in tab.cols THEN {"TrackID", "Time"}
    ELSE IF "TrackID" \notin tab_clean.cols THEN {"TrackID"}
    ELSE {}

\* the loop over the tables of the export, from table i on: acc is
\* [kind, table, merged], merged listing the tables merged so far with their keys
RECURSIVE MergeLoop(_, _, _, _)
MergeLoop(acc, tables, i, position_table_idx) ==
    IF acc.kind # "ok" \/ i > Len(tables) THEN acc
    ELSE IF i = position_table_idx
    THEN MergeLoop(acc, tables, i + 1, position_table_idx)
    ELSE LET tab == tables[i]
             tab_clean == Drop(tab, cols_to_remove)
             on == MergeKeys(tab, tab_clean)
             right == IF "Time" \in tab.cols THEN tab_clean
                      ELSE Rename(tab_clean, "ID", "TrackID")
             m == Merge(acc.table, right, on)
         IN IF on = {} THEN MergeLoop(acc, tables, i + 1, position_table_idx)
            ELSE IF m.kind # "ok" THEN m
            ELSE MergeLoop([kind |-> "ok", table |-> m.table,
                            merged |-> Append(acc.merged, [i |-> i, on |-> on])],
                           tables, i + 1, position_table_idx)

\* the branch of the multi-file export, tracks.py:126-156
ImarisBranch(files, paths) ==
    LET tables == [i \in 1..Len(paths) |-> ReadCsv(files, paths[i])]
        position_table_idx ==
            CHOOSE i \in 1..Len(paths) :
                /\ EndsWith(paths[i], PositionCsv)
                /\ \A j \in 1..(i - 1) : ~EndsWith(paths[j], PositionCsv)
        table == Rename(Drop(tables[position_table_idx], cols_to_remove), "ID", "SpotID")
        looped == MergeLoop([kind |-> "ok", table |-> table, merged |-> <<>>],
                            tables, 1, position_table_idx)
    IN IF looped.kind # "ok" THEN looped
       ELSE IF "Time" \notin looped.table.cols THEN Raised("KeyError")
       ELSE LET r == get_tracks(DecrementTime(looped.table), 0, "TrackID", "Time",
                                <<"Position Z", "Position Y", "Position X">>, DefaultScale)
            IN IF r.kind # "ok" THEN r
               ELSE [kind |-> "ok", branch |-> "imaris", paths |-> paths,
                     merged |-> looped.merged,
                     layer_list |->
                        << << r.track_data,
                              [properties |-> r.properties, colormap |-> "viridis",
                               color_by |-> "TrackID"],
                              layer_type >> >>]

IdColumnMutant(cols) ==
    IF "particle" \in cols THEN "particle" ELSE IF "parent" \in cols THEN "parent" ELSE "none"
\* the schema test of the per-file loop: 'parent' first, then 'particle'
IdColumn(cols) ==
    IF "parent" \in cols THEN "parent" ELSE IF "particle" \in cols THEN "particle" ELSE "none"

\* one iteration of the per-file loop, tracks.py:158-179.  st is
\* [kind, layer_list, bound, tracks, add_kwargs]: bound says whether the local
\* names tracks and add_kwargs have been assigned, by this or an earlier iteration
PerFileStep(st, files, pth) ==
    IF ~Exists(files, pth) THEN Raised("FileNotFoundError")
    ELSE LET tracks_df == ReadCsv(files, pth)
             id_col == IdColumn(tracks_df.cols)
             r == IF id_col = "parent"
                  THEN get_tracks(tracks_df, 0, "parent", "t", DefaultCoordCols, DefaultScale)
                  ELSE get_tracks(tracks_df, 0, "particle", "frame", DefaultCoordCols,
                                  DefaultScale)
         IN IF id_col # "none" /\ r.kind # "ok" THEN r
            ELSE IF id_col # "none"
            THEN LET add_kwargs == [properties |-> r.properties, colormap |-> "viridis",
                                    color_by |-> id_col]
                 IN [kind |-> "ok", bound |-> TRUE, tracks |-> r.track_data,
                     add_kwargs |-> add_kwargs,
                     layer_list |-> Append(st.layer_list,
                                           <<r.track_data, add_kwargs, layer_type>>)]
            ELSE IF ~st.bound THEN Raised("UnboundLocalError")
            ELSE [st EXCEPT !.layer_list =
                      Append(st.layer_list, <<st.tracks, st.add_kwargs, layer_type>>)]

RECURSIVE PerFileLoop(_, _, _, _)
PerFileLoop(st, files, paths, i) ==
    IF st.kind # "ok" \/ i > Len(paths) THEN st
    ELSE PerFileLoop(PerFileStep(st, files, paths[i]), files, paths, i + 1)

PerFileBranch(files, paths) ==
    LET st == PerFileLoop([kind |-> "ok", bound |-> FALSE, tracks |-> <<>>,
                           add_kwargs |-> <<>>, layer_list |-> <<>>], files, paths, 1)
    IN IF st.kind # "ok" THEN st
       ELSE [kind |-> "ok", branch |-> "perfile", paths |-> paths, merged |-> <<>>,
             layer_list |-> st.layer_list]

reader_function(files, p) ==
    IF p.list THEN Raised("TypeError")    \* os.path.isdir(path) on a list
    ELSE LET paths == IF IsDir(p.s) THEN Sorted(Glob(files)) ELSE <<p.s>>
         IN IF Len(paths) > 1 /\ \E i \in 1..Len(paths) : EndsWith(paths[i], PositionCsv)
            THEN ImarisBranch(files, paths)
            ELSE PerFileBranch(files, paths)

----------------------------------------------------------------------------
(* The extractor called on bounded inputs *)

TrackCols == {"particle", "frame", "z", "y", "x"}

MakeRow(i, id, t) ==
    [idx |-> i,
     val |-> [c \in TrackCols |->
                IF c = "particle" THEN id ELSE IF c = "frame" THEN t ELSE Coord(i, c)]]

Tables ==
    UNION {{[cols |-> TrackCols, rows |-> [i \in 1..n |-> MakeRow(i, ids[i], ts[i])]] :
              ids \in [1..n -> 0..MaxId], ts \in [1..n -> 0..MaxTime]} : n \in 0..MaxRows}

CoordChoices == {<<"z", "y", "x">>, <<"y", "x">>, <<"x">>}
\* scale factors are voxel sizes, positive; <<2>> is the scalar 2 (or (2,)),
\* <<2, 3>> a two-element scale, which cannot be broadcast to three columns
Scales == {<<1, 1, 1>>, <<2, 3, 5>>, <<2>>, <<2, 3>>}

\* the reader is not running
RIdle ==
    /\ fs = [n \in Names |-> "absent"]
    /\ path = Str(Dir)
    /\ handler = "unset"
    /\ rpc = "idle"
    /\ routcome = NoValue

\* the extractor is not running
TIdle ==
    /\ df = MkTable(TrackCols, <<>>)
    /\ min_frames = 0
    /\ coord_cols = DefaultCoordCols
    /\ scale = DefaultScale
    /\ tpc = "idle"
    /\ tresult = NoValue

TInit ==
    /\ df \in Tables
    /\ min_frames \in 0..MaxRows
    /\ coord_cols \in CoordChoices
    /\ scale \in Scales
    /\ tpc = "call"
    /\ tresult = NoValue
    /\ RIdle

GetTracks ==
    /\ tpc = "call"
    /\ tresult' = get_tracks(df, min_frames, "particle", "frame", coord_cols, scale)
    /\ tpc' = "done"
    /\ UNCHANGED <<df, min_frames, coord_cols, scale>>
    /\ UNCHANGED rvars

TNext == GetTracks

SpecTracks == TInit /\ [][TNext]_vars

----------------------------------------------------------------------------
(* The plugin called by the viewer: the resolver, then the handler it returned
   with the same path *)

FileSystems ==
    {f \in [Names -> Kinds \cup {"absent"}] : f[TxtName] \in {"neither", "absent"}}

PathLists == UNION {[1..n -> {Join(Dir, m) : m \in Names}] : n \in 0..MaxPaths}

Paths == {Str(Dir)} \cup {Str(Join(Dir, n)) : n \in Names} \cup {List(l) : l \in PathLists}

RInit ==
    /\ fs \in FileSystems
    /\ path \in Paths
    /\ handler = "unset"
    /\ rpc = "resolve"
    /\ routcome = NoValue
    /\ TIdle

NapariGetReader ==
    /\ rpc = "resolve"
    /\ handler' = napari_get_reader(fs, path)
    /\ rpc' = "resolved"
    /\ UNCHANGED <<fs, path, routcome>>
    /\ UNCHANGED tvars

CallHandler ==
    /\ rpc = "resolved"
    /\ handler = "reader_function"
    /\ routcome' = reader_function(fs, path)
    /\ rpc' = "done"
    /\ UNCHANGED <<fs, path, handler>>
    /\ UNCHANGED tvars

RNext == NapariGetReader \/ CallHandler

SpecReader == RInit /\ [][RNext]_vars

----------------------------------------------------------------------------
(* Properties of get_tracks *)

Returned == tpc = "done" /\ tresult.kind = "ok"

\* the number of rows of the input table holding the object id of row i
Occurrences(i) ==
    Cardinality({j \in 1..Len(df.rows) :
                    df.rows[j].val["particle"] = df.rows[i].val["particle"]})

Qualifying == {i \in 1..Len(df.rows) : Occurrences(i) >= min_frames}

DataCols == <<"particle", "frame">> \o coord_cols

\* the input row with index label i, restricted to the columns of the array
InputRow(i) == [k \in 1..Len(DataCols) |-> df.rows[i].val[DataCols[k]]]

\* C1: the output rows are exactly the input rows whose object id occurs at
\* least min_frames times in the input, each exactly once; with min_frames = 0
\* every input row appears exactly once; with unit scale the array rows are
\* the input rows themselves.
C1_FilterExact ==
    Returned =>
        /\ Len(tresult.track_data) = Cardinality(Qualifying)
        /\ Len(tresult.index) = Len(tresult.track_data)
        /\ Range(tresult.index) = Qualifying
        /\ \A a, b \in DOMAIN tresult.index :
                tresult.index[a] = tresult.index[b] => a = b
        /\ min_frames = 0 => Range(tresult.index) = 1..Len(df.rows)
        /\ scale = <<1, 1, 1>> =>
                \A a \in DOMAIN tresult.track_data :
                    tresult.track_data[a] = InputRow(tresult.index[a])

C1_Witness ==
    /\ Returned
    /\ Qualifying # {}
    /\ Qualifying # 1..Len(df.rows)
    /\ Len(tresult.track_data) = Cardinality(Qualifying)

AxisScale(k) == IF Len(scale) = 1 THEN scale[1] ELSE scale[k]

\* C7: every coordinate value of the output is the table's value multiplied by
\* the scale factor of its axis (axis k of coord_cols with scale[k]); with
\* scale (1, 1, 1) the coordinates are the unscaled ones.
C7_CoordsScaledPerAxis ==
    Returned =>
        \A a \in DOMAIN tresult.track_data : \A k \in 1..Len(coord_cols) :
            tresult.track_data[a][2 + k] =
                df.rows[tresult.index[a]].val[coord_cols[k]] * AxisScale(k)

\* C8: every column of the properties mapping has one entry per row of the
\* track array, its id and time entries at position i are the id and time of
\* row i of the array, and its 'track length' entry is the number of input
\* rows sharing the row's object id.
C8_PropertiesRowAligned ==
    Returned =>
        /\ DOMAIN tresult.properties = df.cols \cup {"track length"}
        /\ \A c \in DOMAIN tresult.properties :
                Len(tresult.properties[c]) = Len(tresult.track_data)
        /\ \A a \in DOMAIN tresult.track_data :
                /\ tresult.properties["particle"][a] = tresult.track_data[a][1]
                /\ tresult.properties["frame"][a] = tresult.track_data[a][2]
                /\ tresult.properties["track length"][a] = Occurrences(tresult.index[a])

\* C10: for coord_cols of length one, two or three and every scale, the id and
\* time columns of the output are the id and time of the surviving rows.
C10_IdTimeNotScaled ==
    Returned =>
        \A a \in DOMAIN tresult.track_data :
            /\ tresult.track_data[a][1] = df.rows[tresult.index[a]].val["particle"]
            /\ tresult.track_data[a][2] = df.rows[tresult.index[a]].val["frame"]

----------------------------------------------------------------------------
(* Properties of napari_get_reader and reader_function *)

Resolved == rpc \in {"resolved", "done"}

\* C3: the resolver returns reader_function exactly when the input is a list
\* whose elements all end with '.csv', or a string ending with '.csv', or a
\* string naming a directory with at least one entry ending with '.csv';
\* for every other input it returns None.
C3_ResolverAcceptsExactlyCsv ==
    Resolved =>
        LET accepted ==
                \/ path.list /\ \A i \in DOMAIN path.items : EndsWith(path.items[i], Csv)
                \/ ~path.list /\ EndsWith(path.s, Csv)
                \/ /\ ~path.list
                   /\ path.s = Dir
                   /\ \E n \in Names : fs[n] # "absent" /\ EndsWith(n, Csv)
        IN /\ accepted => handler = "reader_function"
           /\ ~accepted => handler = "None"

\* a list mixing a .csv path and another path has been declined
C3_Witness ==
    /\ Resolved
    /\ path.list
    /\ \E i, j \in DOMAIN path.items :
            EndsWith(path.items[i], Csv) /\ ~EndsWith(path.items[j], Csv)
    /\ handler = "None"

\* C4: the handler the resolver returned accepts the input the resolver
\* accepted, whatever its shape (string, list or directory): it does not fail
\* on the type of the path.
C4_HandlerAcceptsResolvedShape ==
    rpc = "done" => routcome # Raised("TypeError")

PerFileDone == rpc = "done" /\ routcome.kind = "ok" /\ routcome.branch = "perfile"
ImarisDone == rpc = "done" /\ routcome.kind = "ok" /\ routcome.branch = "imaris"

\* the rows of table d in the columns cs, as a set
RowSet(d, cs) == {[k \in 1..Len(cs) |-> d.rows[i].val[cs[k]]] : i \in 1..Len(d.rows)}

\* record rec is a tracks record of table d read with the given id and time
\* columns and coloured by the id column
RecordReads(rec, d, id_col, time_col) ==
    /\ rec[2].color_by = id_col
    /\ Len(rec[1]) = Len(d.rows)
    /\ Range(rec[1]) = RowSet(d, <<id_col, time_col>> \o DefaultCoordCols)
    /\ rec[2].properties[id_col] = [i \in 1..Len(rec[1]) |-> rec[1][i][1]]
    /\ rec[2].properties[time_col] = [i \in 1..Len(rec[1]) |-> rec[1][i][2]]

\* C5: in the per-file branch a table with a 'parent' column is read with id
\* column 'parent' and time column 't' and coloured by 'parent', also when it
\* has a 'particle' column; otherwise a table with a 'particle' column is read
\* with the default columns and coloured by 'particle'; the record is the
\* triple (array, configuration, 'tracks') and the configuration has exactly
\* the keys properties, colormap ('viridis') and color_by.
C5_SchemaDispatch ==
    PerFileDone =>
        /\ Len(routcome.layer_list) = Len(routcome.paths)
        /\ \A k \in DOMAIN routcome.layer_list :
              LET d == TableOf(fs[BaseName(routcome.paths[k])])
                  rec == routcome.layer_list[k]
              IN /\ "parent" \in d.cols => RecordReads(rec, d, "parent", "t")
                 /\ "parent" \notin d.cols /\ "particle" \in d.cols =>
                        RecordReads(rec, d, "particle", "frame")
                 /\ "parent" \in d.cols \/ "particle" \in d.cols =>
                        /\ Len(rec) = 3
                        /\ rec[3] = "tracks"
                        /\ DOMAIN rec[2] = {"properties", "colormap", "color_by"}
                        /\ rec[2].colormap = "viridis"

\* a file holding both a 'parent' and a 'particle' column has been read
C5_Witness ==
    /\ PerFileDone
    /\ \E k \in DOMAIN routcome.layer_list :
            /\ {"parent", "particle"} \subseteq TableOf(fs[BaseName(routcome.paths[k])]).cols
            /\ routcome.layer_list[k][2].color_by = "parent"

\* C6: in the multi-file branch every auxiliary table is merged: on
\* (TrackID, Time) when it has a 'Time' column, on TrackID alone when it has
\* none; none is left unmerged.
C6_EveryAuxiliaryMerged ==
    ImarisDone =>
        \A i \in DOMAIN routcome.paths :
            ~EndsWith(routcome.paths[i], PositionCsv) =>
                LET d == TableOf(fs[BaseName(routcome.paths[i])])
                IN \E m \in DOMAIN routcome.merged :
                      /\ routcome.merged[m].i = i
                      /\ routcome.merged[m].on =
                            IF "Time" \in d.cols THEN {"TrackID", "Time"} ELSE {"TrackID"}

\* the keys auxiliary table i of the export was merged on, as a set of key sets
MergedOn(i) ==
    {routcome.merged[m].on : m \in {n \in DOMAIN routcome.merged : routcome.merged[n].i = i}}

\* C6 (amended): in the multi-file branch an auxiliary table with a 'Time'
\* column is merged on (TrackID, Time); one with neither a 'Time' nor a
\* 'TrackID' column is merged on TrackID alone, its ID column renamed to
\* TrackID, and its other columns appear in the properties; one with a
\* 'TrackID' column but no 'Time' column is not merged at all.
C6_AuxiliaryMergedUnlessTrackIdWithoutTime ==
    ImarisDone =>
        \A i \in DOMAIN routcome.paths :
            ~EndsWith(routcome.paths[i], PositionCsv) =>
                LET d == TableOf(fs[BaseName(routcome.paths[i])])
                    props == DOMAIN routcome.layer_list[1][2].properties
                IN /\ "Time" \in d.cols => MergedOn(i) = {{"TrackID", "Time"}}
                   /\ "Time" \notin d.cols /\ "TrackID" \notin d.cols =>
                        /\ MergedOn(i) = {{"TrackID"}}
                        /\ \A c \in d.cols \ (cols_to_remove \cup {"ID"}) :
                              {c, c \o "_x", c \o "_y"} \cap props # {}
                   /\ "Time" \notin d.cols /\ "TrackID" \in d.cols => MergedOn(i) = {}

\* an export with a per-track table (no Time, no TrackID) and a table holding
\* TrackID without Time has been read
C6_Witness ==
    /\ ImarisDone
    /\ \E i, j \in DOMAIN routcome.paths :
            /\ fs[BaseName(routcome.paths[i])] = "auxtrack"
            /\ fs[BaseName(routcome.paths[j])] = "auxnotime"
            /\ MergedOn(i) = {{"TrackID"}}
            /\ MergedOn(j) = {}

\* C9: in the per-file branch every record of the returned list was computed
\* from the table of the file at its position: a file with neither a 'parent'
\* nor a 'particle' column does not add a record built from an earlier file.
C9_RecordsFromOwnFile ==
    PerFileDone =>
        \A k \in DOMAIN routcome.layer_list :
            LET d == TableOf(fs[BaseName(routcome.paths[k])])
                rec == routcome.layer_list[k]
            IN IF "parent" \in d.cols
               THEN Range(rec[1]) = RowSet(d, <<"parent", "t">> \o DefaultCoordCols)
               ELSE IF "particle" \in d.cols
               THEN Range(rec[1]) = RowSet(d, <<"particle", "frame">> \o DefaultCoordCols)
               ELSE FALSE

====
